---- MODULE Spec2Model ----
(***************************************************************************)
(* PagerDuty on-call automation CLI: the remove action of main.py and the  *)
(* PagerDutyAPI methods it drives (pd_api.py), run against a remote        *)
(* account that an external writer may edit between the tool's calls.      *)
(***************************************************************************)
EXTENDS Integers, Sequences, FiniteSets, TLC

VARIABLES
    rUsers,      \* remote: ids of the users that exist
    rSchedules,  \* remote: sequence of schedules, each a sequence of layers
    rPolicies,   \* remote: sequence of policies, each a sequence of rules
    rIncidents,  \* remote: sequence of incidents [assignee, ep]
    user_list,   \* main: the user references given on the command line
    bi,          \* main: index in user_list of the reference being processed
    pc,          \* position of the program
    user,        \* main: id of the user found for the current reference
    policy_ids,  \* main: policy ids collected from the on-call lookup
    k,           \* index of the loop the program is in
    local,       \* the list the program iterates over (schedules, policies, incidents)
    obj,         \* the schedule or policy edited in memory and not yet written
    avoid_user_ids, \* override_user_in_all_*: the ids that may not be substitutes
    ret,         \* delete_user: its return value ("none" while it has not returned)
    trace,       \* requests issued, scan results and console reports, in order
    extWrites,   \* number of external writes so far
    failures     \* number of remote calls that failed so far

vars == <<rUsers, rSchedules, rPolicies, rIncidents, user_list, bi, pc, user,
          policy_ids, k, local, obj, avoid_user_ids, ret, trace, extWrites, failures>>

remote == <<rUsers, rSchedules, rPolicies, rIncidents>>

----------------------------------------------------------------------------
\* Bounds of the model

MaxExternalWrites == 1
MaxFailures == 1
MaxBatch == 2

Users == {"U1", "U2", "U3"}
NotFoundRef == "UX"
Refs == {"U1", "U2", NotFoundRef}

None == "none"

Min(S) == CHOOSE x \in S : \A y \in S : x <= y

RECURSIVE SeqsUpTo(_, _)
SeqsUpTo(S, n) ==
    IF n = 0 THEN {<<>>}
    ELSE LET shorter == SeqsUpTo(S, n - 1)
         IN shorter \cup {Append(s, x) : s \in {t \in shorter : Len(t) = n - 1}, x \in S}

----------------------------------------------------------------------------
\* Remote entities as the API returns them

\* a schedule layer 'users' entry: {"user": {"id": ...}} plus its other attributes
Entry(u, w) == [user |-> u, win |-> w]
NoEntry == Entry(None, 0)

Layer(us) == [users |-> us]

\* an escalation rule target: {"type": ..., "id": ...}
Target(t, i) == [type |-> t, id |-> i]
NoTarget == Target(None, None)

UserRef(u) == Target("user_reference", u)

\* an incident: its assignee and its escalation policy id (0: none in the payload)
Incident(a, ep) == [assignee |-> a, ep |-> ep]

----------------------------------------------------------------------------
\* pd_api.py: the in-memory transforms

\* next((u for u in users if u['user']['id'] not in avoid_user_ids), None)
FirstNotAvoidedPickLast(users, avoid) ==
    LET ok == {i \in 1..Len(users) : users[i].user \notin avoid}
    IN IF ok = {} THEN NoEntry ELSE users[CHOOSE i \in ok : \A j \in ok : j <= i]

FirstNotAvoided(users, avoid) ==
    LET ok == {i \in 1..Len(users) : users[i].user \notin avoid}
    IN IF ok = {} THEN NoEntry ELSE users[Min(ok)]

UserIdsIn(users) == {users[i].user : i \in 1..Len(users)}

\* lines 652-660: same layer, then previous layer, then next layer; `layers` is the
\* list being edited in place, so layers before idx are already rewritten
FindReplacement(layers, idx, avoid) ==
    LET same == FirstNotAvoided(layers[idx].users, avoid)
        prev == IF same = NoEntry /\ idx > 1
                THEN FirstNotAvoided(layers[idx - 1].users, avoid) ELSE same
        nxt  == IF prev = NoEntry /\ idx < Len(layers)
                THEN FirstNotAvoided(layers[idx + 1].users, avoid) ELSE prev
    IN nxt

\* line 662: [replacement if u is the user else u for u in orig_users]
ReplaceInLayer(users, user_id, replacement) ==
    [i \in 1..Len(users) |-> IF users[i].user = user_id THEN replacement ELSE users[i]]

\* lines 646-666: the loop over the layers of one schedule; acc is
\* [layers, changed, norepl], norepl the layers for which no replacement was found
RECURSIVE OverrideLayers(_, _, _, _)
OverrideLayers(acc, idx, user_id, avoid) ==
    IF idx > Len(acc.layers) THEN acc
    ELSE LET orig_users == acc.layers[idx].users
         IN IF user_id \in UserIdsIn(orig_users)
            THEN LET replacement == FindReplacement(acc.layers, idx, avoid)
                 IN IF replacement # NoEntry
                    THEN OverrideLayers(
                           [acc EXCEPT !.layers[idx].users =
                                           ReplaceInLayer(orig_users, user_id, replacement),
                                       !.changed = TRUE],
                           idx + 1, user_id, avoid)
                    ELSE OverrideLayers([acc EXCEPT !.norepl = @ \cup {idx}],
                                        idx + 1, user_id, avoid)
            ELSE OverrideLayers(acc, idx + 1, user_id, avoid)

OverrideSchedule(layers, user_id, avoid) ==
    OverrideLayers([layers |-> layers, changed |-> FALSE, norepl |-> {}], 1, user_id, avoid)

\* lines 680-691: the loop over the rules of one policy
FirstUserTargetNotAvoided(targets, avoid) ==
    LET ok == {i \in 1..Len(targets) :
                  targets[i].type = "user_reference" /\ targets[i].id \notin avoid}
    IN IF ok = {} THEN NoTarget ELSE targets[Min(ok)]

UserIdsInRule(targets) ==
    {targets[i].id : i \in {j \in 1..Len(targets) : targets[j].type = "user_reference"}}

ReplaceInRule(targets, user_id, replacement) ==
    [i \in 1..Len(targets) |->
        IF targets[i].type = "user_reference" /\ targets[i].id = user_id
        THEN replacement ELSE targets[i]]

RECURSIVE OverrideRules(_, _, _, _)
OverrideRules(acc, idx, user_id, avoid) ==
    IF idx > Len(acc.rules) THEN acc
    ELSE LET orig_targets == acc.rules[idx]
         IN IF user_id \in UserIdsInRule(orig_targets)
            THEN LET replacement == FirstUserTargetNotAvoided(orig_targets, avoid)
                 IN IF replacement # NoTarget
                    THEN OverrideRules(
                           [acc EXCEPT !.rules[idx] =
                                           ReplaceInRule(orig_targets, user_id, replacement),
                                       !.changed = TRUE],
                           idx + 1, user_id, avoid)
                    ELSE OverrideRules([acc EXCEPT !.norepl = @ \cup {idx}],
                                       idx + 1, user_id, avoid)
            ELSE OverrideRules(acc, idx + 1, user_id, avoid)

OverridePolicy(rules, user_id, avoid) ==
    OverrideRules([rules |-> rules, changed |-> FALSE, norepl |-> {}], 1, user_id, avoid)

\* lines 550-559: drops the targets of type 'user' with the user's id
KeepTarget(t, user_id) == ~(t.type = "user" /\ t.id = user_id)

remove_user_from_policy_dropping_emptied_rules(rules, user_id) ==
    LET new == [i \in 1..Len(rules) |-> SelectSeq(rules[i], LAMBDA t : KeepTarget(t, user_id))]
    IN [rules |-> SelectSeq(new, LAMBDA r : r # <<>>),
        changed |-> \E i \in 1..Len(rules) : Len(new[i]) < Len(rules[i])]

remove_user_from_policy(rules, user_id) ==
    LET new == [i \in 1..Len(rules) |-> SelectSeq(rules[i], LAMBDA t : KeepTarget(t, user_id))]
    IN [rules |-> new,
        changed |-> \E i \in 1..Len(rules) : Len(new[i]) < Len(rules[i])]

\* lines 704-708: the scan of one schedule's layers
UserInSchedule(layers, user_id) ==
    \E l \in 1..Len(layers) : user_id \in UserIdsIn(layers[l].users)

\* lines 711-718: only the targets of type 'user_reference' are compared
IsUserTypeTargetInAnyPolicy(policies, user_id) ==
    \E p \in 1..Len(policies) : \E r \in 1..Len(policies[p]) :
        \E t \in 1..Len(policies[p][r]) :
            policies[p][r][t].type = "user" /\ policies[p][r][t].id = user_id

is_user_in_any_escalation_policy(policies, user_id) ==
    \E p \in 1..Len(policies) : \E r \in 1..Len(policies[p]) :
        \E t \in 1..Len(policies[p][r]) :
            policies[p][r][t].type = "user_reference" /\ policies[p][r][t].id = user_id

----------------------------------------------------------------------------
\* The remote account at the start, and the command line

L(us) == Layer([i \in 1..Len(us) |-> Entry(us[i], 0)])

\* schedules: a peer in the layer; nobody else in the first schedule; nobody else in
\* the first two layers
InitSchedules ==
    {<< <<L(<<"U1", "U2">>)>> >>,
     << <<L(<<"U1">>)>>, <<L(<<"U2", "U1">>)>> >>,
     << <<L(<<"U1">>), L(<<"U1">>), L(<<"U1", "U2">>)>> >>}

\* policies: nobody else in the first rule; a target of type 'user' and a peer; two
\* policies
InitPolicies ==
    {<< <<<<UserRef("U1")>>, <<UserRef("U2"), UserRef("U1")>>>> >>,
     << <<<<Target("user", "U1"), UserRef("U1"), UserRef("U2")>>,
          <<Target("schedule_reference", "S1")>>>> >>,
     << <<<<UserRef("U1")>>>>, <<<<UserRef("U1"), UserRef("U3")>>>> >>}

\* incidents of U1: one without an escalation policy in the payload (0), one with the
\* id of the account's last policy
InitIncidents(policies) == <<Incident("U1", 0), Incident("U1", Len(policies))>>

\* the command line names U1, alone or with other references
Batches == {b \in SeqsUpTo(Refs, MaxBatch) \ {<<>>} :
               /\ \A i, j \in 1..Len(b) : i # j => b[i] # b[j]
               /\ \E i \in 1..Len(b) : b[i] = "U1"}

Init ==
    /\ rUsers = Users
    /\ rSchedules \in InitSchedules
    /\ rPolicies \in InitPolicies
    /\ rIncidents = InitIncidents(rPolicies)
    /\ user_list \in Batches
    /\ bi = 1
    /\ pc = "get_user"
    /\ user = None
    /\ policy_ids = <<>>
    /\ k = 0
    /\ local = <<>>
    /\ obj = <<>>
    /\ avoid_user_ids = {}
    /\ ret = "none"
    /\ trace = <<>>
    /\ extWrites = 0
    /\ failures = 0

----------------------------------------------------------------------------
\* Events of the trace

Ev(e, i, a) == [ev |-> e, run |-> bi, who |-> user, at |-> pc, id |-> i, arg |-> a]

Log(e, i, a) == trace' = Append(trace, Ev(e, i, a))

\* main.py: `continue` / the end of the loop body at line 416
NextRef ==
    /\ bi' = bi + 1
    /\ pc' = IF bi + 1 > Len(user_list) THEN "done" ELSE "get_user"
    /\ user' = None
    /\ policy_ids' = <<>>
    /\ k' = 0
    /\ local' = <<>>
    /\ obj' = <<>>
    /\ avoid_user_ids' = {}
    /\ ret' = "none"

RECURSIVE SetToSeq(_)
SetToSeq(S) == IF S = {} THEN <<>> ELSE LET m == Min(S) IN <<m>> \o SetToSeq(S \ {m})

----------------------------------------------------------------------------
\* The order of the stages

\* pd_api.py lines 720-738: the statements of delete_user, in order
delete_user_stages_policies_first ==
    <<"ov_p_list", "ov_s_list", "vf_s_list", "vf_p", "delete">>

delete_user_stages == <<"ov_s_list", "ov_p_list", "vf_s_list", "vf_p", "delete">>

\* the stage delete_user enters when `stage` is over
After(stage) ==
    LET i == CHOOSE j \in 1..Len(delete_user_stages) : delete_user_stages[j] = stage
    IN delete_user_stages[i + 1]

----------------------------------------------------------------------------
\* main.py, remove action, lines 355-416

\* lines 357-360
get_user ==
    /\ pc = "get_user"
    /\ IF user_list[bi] \in rUsers
       THEN /\ user' = user_list[bi]
            /\ pc' = "oncalls"
            /\ UNCHANGED <<bi, policy_ids, k, local, obj, avoid_user_ids, ret, trace>>
       ELSE /\ trace' = Append(trace, [Ev("print_not_found", 0, 0) EXCEPT !.who = user_list[bi]])
            /\ NextRef
    /\ UNCHANGED <<remote, user_list, extWrites, failures>>

\* lines 364, 378-382: the policies of the on-call entries the service returns
get_user_oncalls ==
    /\ pc = "oncalls"
    /\ \E pids \in SUBSET (1..Len(rPolicies)) : policy_ids' = SetToSeq(pids)
    /\ pc' = "s2_get"
    /\ k' = 1
    /\ UNCHANGED <<remote, user_list, bi, user, local, obj, avoid_user_ids, ret, trace,
                   extWrites, failures>>

\* lines 383-393 up to the update
stage2_get ==
    /\ pc = "s2_get"
    /\ IF k > Len(policy_ids)
       THEN /\ pc' = "s3_list"
            /\ UNCHANGED <<k, obj>>
       ELSE LET r == remove_user_from_policy(rPolicies[policy_ids[k]], user)
            IN IF r.changed
               THEN /\ obj' = r.rules
                    /\ pc' = "s2_put"
                    /\ k' = k
               ELSE /\ k' = k + 1
                    /\ UNCHANGED <<pc, obj>>
    /\ UNCHANGED <<remote, user_list, bi, user, policy_ids, local, avoid_user_ids, ret,
                   trace, extWrites, failures>>

\* line 387: update_escalation_policy(pid, policy)
stage2_put ==
    /\ pc = "s2_put"
    /\ rPolicies' = [rPolicies EXCEPT ![policy_ids[k]] = obj]
    /\ Log("put_policy", policy_ids[k], 0)
    /\ k' = k + 1
    /\ pc' = "s2_get"
    /\ obj' = <<>>
    /\ UNCHANGED <<rUsers, rSchedules, rIncidents, user_list, bi, user, policy_ids, local,
                   avoid_user_ids, ret, extWrites, failures>>

\* pd_api.py lines 322-327: the open incidents assigned to the user, as listed
list_user_incidents(user_id) ==
    LET ids == {i \in 1..Len(rIncidents) : rIncidents[i].assignee = user_id}
        s == SetToSeq(ids)
    IN [i \in 1..Len(s) |-> [id |-> s[i], ep |-> rIncidents[s[i]].ep]]

\* lines 397-399, 410-411
stage3_list ==
    /\ pc = "s3_list"
    /\ LET incidents == list_user_incidents(user)
       IN IF incidents # <<>>
          THEN /\ local' = incidents
               /\ k' = 1
               /\ pc' = "s3_inc"
               /\ UNCHANGED trace
          ELSE /\ Log("print_no_incidents", 0, 0)
               /\ pc' = delete_user_stages[1]
               /\ UNCHANGED <<k, local>>
    /\ UNCHANGED <<remote, user_list, bi, user, policy_ids, obj, avoid_user_ids, ret,
                   extWrites, failures>>

\* pd_api.py lines 574-591: the incident is handed to the policy's own escalation
reassign_incident_to_policy(incident_id, policy_id) ==
    [rIncidents EXCEPT ![incident_id] = [assignee |-> "EP", ep |-> policy_id]]

\* lines 401-405: ep_id = inc.get('escalation_policy', {}).get('id'), the policy the
\* incident is handed to
ReassignTargetFirstPolicy(inc) == 1

ReassignTarget(inc) == inc.ep

\* lines 407-408: the except clause prints inside the loop body, the loop goes on
\* with the next incident of the list
NextAfterFailureBreakingLoop(i, n) == n + 1

NextAfterFailure(i, n) == i + 1

\* lines 400-409: one incident of the list, then the closing report
stage3_incident ==
    /\ pc = "s3_inc"
    /\ IF k > Len(local)
       THEN /\ Log("print_reassigned_successfully", 0, 0)
            /\ pc' = delete_user_stages[1]
            /\ UNCHANGED <<k, local, rIncidents, failures>>
       ELSE LET inc == local[k]
                ep_id == ReassignTarget(inc) IN
            /\ UNCHANGED <<pc, local>>
            /\ IF ep_id # 0
               THEN \/ /\ rIncidents' = reassign_incident_to_policy(inc.id, ep_id)
                       /\ trace' = trace \o <<Ev("reassign_to_policy", inc.id, ep_id),
                                              Ev("print_reassigned", inc.id, ep_id)>>
                       /\ k' = k + 1
                       /\ UNCHANGED failures
                    \/ /\ failures < MaxFailures
                       /\ failures' = failures + 1
                       /\ trace' = trace \o <<Ev("reassign_to_policy", inc.id, ep_id),
                                              Ev("print_failed_reassign", inc.id, ep_id)>>
                       /\ k' = NextAfterFailure(k, Len(local))
                       /\ UNCHANGED rIncidents
               ELSE /\ k' = k + 1
                    /\ UNCHANGED <<rIncidents, trace, failures>>
    /\ UNCHANGED <<rUsers, rSchedules, rPolicies, user_list, bi, user, policy_ids, obj,
                   avoid_user_ids, ret, extWrites>>

----------------------------------------------------------------------------
\* pd_api.py, delete_user, lines 720-738, called at main.py line 415

\* the number of schedules the service returns to a listing request that names no
\* offset and no limit
DefaultPageSize == 2

\* lines 635-638: one GET /schedules without parameters, no loop over the pages
FirstPage(ids) == SubSeq(ids, 1, Min({Len(ids), DefaultPageSize}))

\* line 722: avoid_user_ids=[user_id]; lines 635-638: GET /schedules, one request
override_schedules_list ==
    /\ pc = "ov_s_list"
    /\ avoid_user_ids' = {user}
    /\ local' = FirstPage([i \in 1..Len(rSchedules) |-> i])
    /\ k' = 1
    /\ pc' = "ov_s_get"
    /\ UNCHANGED <<remote, user_list, bi, user, policy_ids, obj, ret, trace, extWrites,
                   failures>>

NoReplacementEvents(norepl, id) ==
    [i \in 1..Len(SetToSeq(norepl)) |-> Ev("print_no_replacement", id, SetToSeq(norepl)[i])]

\* lines 639-666: GET of one schedule and the rewrite of its layers in memory
override_schedule_get ==
    /\ pc = "ov_s_get"
    /\ IF k > Len(local)
       THEN /\ pc' = After("ov_s_list")
            /\ local' = <<>>
            /\ UNCHANGED <<k, obj, trace>>
       ELSE LET r == OverrideSchedule(rSchedules[local[k]], user, avoid_user_ids)
            IN /\ trace' = trace \o NoReplacementEvents(r.norepl, local[k])
               /\ IF r.changed
                  THEN /\ obj' = r.layers
                       /\ pc' = "ov_s_put"
                       /\ UNCHANGED <<k, local>>
                  ELSE /\ k' = k + 1
                       /\ UNCHANGED <<pc, local, obj>>
    /\ UNCHANGED <<remote, user_list, bi, user, policy_ids, avoid_user_ids, ret, extWrites,
                   failures>>

\* lines 668-669 and 304-306: the body of the PUT is the whole entity, and the
\* service stores it in the place of what it holds (`stored`)
PutLeavingStored(stored, body) == stored

PutWhole(stored, body) == body

\* lines 667-671: PUT of the rewritten schedule
override_schedule_put ==
    /\ pc = "ov_s_put"
    /\ rSchedules' = [rSchedules EXCEPT ![local[k]] = PutWhole(@, obj)]
    /\ Log("put_schedule", local[k], 0)
    /\ k' = k + 1
    /\ pc' = "ov_s_get"
    /\ obj' = <<>>
    /\ UNCHANGED <<rUsers, rPolicies, rIncidents, user_list, bi, user, policy_ids, local,
                   avoid_user_ids, ret, extWrites, failures>>

\* line 724: avoid_user_ids=[user_id]; line 677: list_escalation_policies, the rules
\* and targets come with the listing
override_policies_list ==
    /\ pc = "ov_p_list"
    /\ avoid_user_ids' = {user}
    /\ local' = rPolicies
    /\ k' = 1
    /\ pc' = "ov_p_step"
    /\ UNCHANGED <<remote, user_list, bi, user, policy_ids, obj, ret, trace, extWrites,
                   failures>>

\* lines 678-693: one policy of the listing: rewrite, then PUT when changed
override_policy_step ==
    /\ pc = "ov_p_step"
    /\ IF k > Len(local)
       THEN /\ pc' = After("ov_p_list")
            /\ local' = <<>>
            /\ UNCHANGED <<k, rPolicies, trace>>
       ELSE LET r == OverridePolicy(local[k], user, avoid_user_ids)
            IN /\ k' = k + 1
               /\ UNCHANGED <<pc, local>>
               /\ IF r.changed
                  THEN /\ rPolicies' = [rPolicies EXCEPT ![k] = PutWhole(@, r.rules)]
                       /\ trace' = trace \o NoReplacementEvents(r.norepl, k)
                                         \o <<Ev("put_policy", k, 0)>>
                  ELSE /\ trace' = trace \o NoReplacementEvents(r.norepl, k)
                       /\ UNCHANGED rPolicies
    /\ UNCHANGED <<rUsers, rSchedules, rIncidents, user_list, bi, user, policy_ids, obj,
                   avoid_user_ids, ret, extWrites, failures>>

\* line 697: list_schedules
verify_schedules_list ==
    /\ pc = "vf_s_list"
    /\ local' = [i \in 1..Len(rSchedules) |-> i]
    /\ k' = 1
    /\ pc' = "vf_s_get"
    /\ UNCHANGED <<remote, user_list, bi, user, policy_ids, obj, avoid_user_ids, ret, trace,
                   extWrites, failures>>

\* lines 726-728 and 730-732: `if self.is_user_in_any_...(user_id): return False`
RefusesNever(found) == FALSE

Refuses(found) == found

\* lines 698-709 and 726-728: is_user_in_any_schedule, one schedule per step
verify_schedule_get ==
    /\ pc = "vf_s_get"
    /\ IF k > Len(local)
       THEN /\ Log("is_user_in_any_schedule", 0, 0)
            /\ pc' = After("vf_s_list")
            /\ local' = <<>>
            /\ UNCHANGED <<k, ret>>
       ELSE IF UserInSchedule(rSchedules[local[k]], user)
            THEN /\ IF Refuses(TRUE)
                    THEN /\ trace' = trace \o <<Ev("is_user_in_any_schedule", local[k], 1),
                                                 Ev("delete_user_returns", 0, 0)>>
                         /\ ret' = "false"
                         /\ pc' = "returned"
                         /\ UNCHANGED local
                    ELSE /\ Log("is_user_in_any_schedule", local[k], 1)
                         /\ pc' = After("vf_s_list")
                         /\ local' = <<>>
                         /\ UNCHANGED ret
                 /\ UNCHANGED k
            ELSE /\ k' = k + 1
                 /\ UNCHANGED <<pc, local, ret, trace>>
    /\ UNCHANGED <<remote, user_list, bi, user, policy_ids, obj, avoid_user_ids, extWrites,
                   failures>>

\* lines 730-732
verify_policies ==
    /\ pc = "vf_p"
    /\ LET found == is_user_in_any_escalation_policy(rPolicies, user)
       IN IF Refuses(found)
          THEN /\ trace' = trace \o <<Ev("is_user_in_any_escalation_policy", 0, 1),
                                       Ev("delete_user_returns", 0, 0)>>
               /\ ret' = "false"
               /\ pc' = "returned"
          ELSE /\ Log("is_user_in_any_escalation_policy", 0, IF found THEN 1 ELSE 0)
               /\ pc' = After("vf_p")
               /\ UNCHANGED ret
    /\ UNCHANGED <<remote, user_list, bi, user, policy_ids, k, local, obj, avoid_user_ids,
                   extWrites, failures>>

\* lines 734-738: DELETE /users/{id}
delete_request ==
    /\ pc = "delete"
    /\ rUsers' = rUsers \ {user}
    /\ trace' = trace \o <<Ev("delete", 0, 0), Ev("delete_user_returns", 0, 1)>>
    /\ ret' = "true"
    /\ pc' = "returned"
    /\ UNCHANGED <<rSchedules, rPolicies, rIncidents, user_list, bi, user, policy_ids, k,
                   local, obj, avoid_user_ids, extWrites, failures>>

\* main.py lines 415-416: the return value is dropped and the report printed
after_delete_user ==
    /\ pc = "returned"
    /\ trace' = Append(trace, Ev("print_successfully_deleted", 0, 0))
    /\ NextRef
    /\ UNCHANGED <<remote, user_list, extWrites, failures>>

----------------------------------------------------------------------------
\* The environment: failing remote calls and an external writer

\* the step at pc issues a request whose raise_for_status() nothing catches
AtUncaughtCall ==
    \/ pc \in {"get_user", "oncalls", "s2_put", "s3_list", "ov_s_list", "ov_s_put",
               "ov_p_list", "vf_s_list", "vf_p", "delete"}
    \/ pc = "s2_get" /\ k <= Len(policy_ids)
    \/ pc \in {"ov_s_get", "vf_s_get"} /\ k <= Len(local)
    \/ pc = "ov_p_step" /\ k <= Len(local)
          /\ OverridePolicy(local[k], user, avoid_user_ids).changed

\* resp.raise_for_status() raises; main.py has no handler, the process ends
RemoteCallFails ==
    /\ AtUncaughtCall
    /\ failures < MaxFailures
    /\ failures' = failures + 1
    /\ trace' = trace
                \o (IF pc = "ov_p_step"
                    THEN NoReplacementEvents(
                             OverridePolicy(local[k], user, avoid_user_ids).norepl, k)
                    ELSE <<>>)
                \o <<Ev("raise", 0, 0)>>
    /\ pc' = "crashed"
    /\ UNCHANGED <<remote, user_list, bi, user, policy_ids, k, local, obj, avoid_user_ids,
                   ret, extWrites>>

\* the user another client of the account re-adds while the tool runs
ExtUsers == {"U1"}

\* another client of the account appends a user to a layer or to a rule
ExternalWrite ==
    /\ pc \notin {"done", "crashed"}
    /\ extWrites < MaxExternalWrites
    /\ extWrites' = extWrites + 1
    /\ \E u \in ExtUsers \cap rUsers :
          \/ \E s \in 1..Len(rSchedules) : \E l \in 1..Len(rSchedules[s]) :
                /\ rSchedules' = [rSchedules EXCEPT ![s][l].users = Append(@, Entry(u, 0))]
                /\ UNCHANGED rPolicies
          \/ \E p \in 1..Len(rPolicies) : \E r \in 1..Len(rPolicies[p]) :
                /\ rPolicies' = [rPolicies EXCEPT ![p][r] = Append(@, UserRef(u))]
                /\ UNCHANGED rSchedules
    /\ UNCHANGED <<rUsers, rIncidents, user_list, bi, pc, user, policy_ids, k, local, obj,
                   avoid_user_ids, ret, trace, failures>>

Next ==
    \/ get_user
    \/ get_user_oncalls
    \/ stage2_get
    \/ stage2_put
    \/ stage3_list
    \/ stage3_incident
    \/ override_schedules_list
    \/ override_schedule_get
    \/ override_schedule_put
    \/ override_policies_list
    \/ override_policy_step
    \/ verify_schedules_list
    \/ verify_schedule_get
    \/ verify_policies
    \/ delete_request
    \/ after_delete_user
    \/ RemoteCallFails
    \/ ExternalWrite

Spec == Init /\ [][Next]_vars

----------------------------------------------------------------------------
\* Reading the trace

Idx == 1..Len(trace)

DeleteIssued(e) == e.ev = "delete" \/ (e.ev = "raise" /\ e.at = "delete")

IsWrite(e) == e.ev \in {"put_schedule", "put_policy"}

ScanFound(e) ==
    e.ev \in {"is_user_in_any_schedule", "is_user_in_any_escalation_policy"} /\ e.arg = 1

\* the remote account references u: a layer entry, or a user target of a rule
ReferencedInSchedules(u) ==
    \E s \in 1..Len(rSchedules) : \E l \in 1..Len(rSchedules[s]) :
        \E i \in 1..Len(rSchedules[s][l].users) : rSchedules[s][l].users[i].user = u

ReferencedInPolicies(u) ==
    \E p \in 1..Len(rPolicies) : \E r \in 1..Len(rPolicies[p]) :
        \E t \in 1..Len(rPolicies[p][r]) :
            rPolicies[p][r][t].type \in {"user", "user_reference"} /\ rPolicies[p][r][t].id = u

----------------------------------------------------------------------------
\* C1: fail-closed gate. In every run of delete_user(U) the DELETE of U is issued
\* only after is_user_in_any_schedule(U) and then
\* is_user_in_any_escalation_policy(U) both returned false in that run; when one
\* of the two scans finds U, delete_user returns False at once and no DELETE of U
\* is issued in that run.
C1_FailClosedGate ==
    /\ \A d \in Idx : DeleteIssued(trace[d]) =>
          \E a, b \in 1..(d - 1) :
             /\ a < b
             /\ trace[a].ev = "is_user_in_any_schedule" /\ trace[a].arg = 0
             /\ trace[b].ev = "is_user_in_any_escalation_policy" /\ trace[b].arg = 0
             /\ trace[a].run = trace[d].run /\ trace[b].run = trace[d].run
             /\ trace[a].who = trace[d].who /\ trace[b].who = trace[d].who
    /\ \A a \in Idx : ScanFound(trace[a]) =>
          /\ a < Len(trace)
          /\ trace[a + 1].ev = "delete_user_returns" /\ trace[a + 1].arg = 0
          /\ \A d \in Idx : DeleteIssued(trace[d]) => trace[d].run # trace[a].run

\* C1 witness: with every reference replaced by the override stages, an external
\* writer put the user back and delete_user refused
C1_Witness ==
    /\ pc = "returned" /\ ret = "false"
    /\ extWrites = 1
    /\ \E i \in Idx : trace[i].ev = "put_schedule" /\ trace[i].run = bi
    /\ \A i \in Idx : trace[i].ev # "print_no_replacement"

\* C2: in every state in which the remove action has just issued the DELETE of U,
\* no schedule layer entry and no escalation-rule target of the remote account
\* references U, whatever the external writes.
C2_NoDeleteWhileReferenced ==
    (pc = "returned" /\ ret = "true") =>
        ~ReferencedInSchedules(user) /\ ~ReferencedInPolicies(user)

\* C3 as claimed: per identity, the stages are all schedule overrides, all policy
\* overrides, incident reassignment, schedule verification, policy verification,
\* deletion; no event of a later stage precedes one of an earlier stage.
ClaimedRank(e) ==
    CASE e.ev = "put_schedule" -> 1
      [] e.ev = "put_policy" -> 2
      [] e.ev = "reassign_to_policy" -> 3
      [] e.ev = "is_user_in_any_schedule" -> 4
      [] e.ev = "is_user_in_any_escalation_policy" -> 5
      [] DeleteIssued(e) -> 6
      [] OTHER -> 0

C3_ClaimedStageOrder ==
    \A i, j \in Idx :
        (i < j /\ trace[i].run = trace[j].run
           /\ ClaimedRank(trace[i]) > 0 /\ ClaimedRank(trace[j]) > 0)
        => ClaimedRank(trace[i]) <= ClaimedRank(trace[j])

\* C3 amended: per identity, the order is: removal from the on-call policies
\* (policy writes), incident reassignment, all schedule overrides, all policy
\* overrides, schedule verification, policy verification, deletion.
CodeRank(e) ==
    CASE e.ev = "put_policy" /\ e.at = "s2_put" -> 1
      [] e.ev = "reassign_to_policy" -> 2
      [] e.ev = "put_schedule" -> 3
      [] e.ev = "put_policy" /\ e.at # "s2_put" -> 4
      [] e.ev = "is_user_in_any_schedule" -> 5
      [] e.ev = "is_user_in_any_escalation_policy" -> 6
      [] DeleteIssued(e) -> 7
      [] OTHER -> 0

C3_StageOrder ==
    \A i, j \in Idx :
        (i < j /\ trace[i].run = trace[j].run
           /\ CodeRank(trace[i]) > 0 /\ CodeRank(trace[j]) > 0)
        => CodeRank(trace[i]) <= CodeRank(trace[j])

\* C3 witness: one run went through every stage, down to the DELETE
C3_Witness ==
    /\ pc = "returned" /\ ret = "true"
    /\ \A r \in 1..7 : \E i \in Idx : trace[i].run = bi /\ CodeRank(trace[i]) = r

\* C4: when an open incident is still assigned to the departing identity at
\* verification time, the remove action never issues the DELETE.
C4_OpenIncidentBlocksDelete ==
    (pc = "returned" /\ ret = "true") =>
        \A n \in 1..Len(rIncidents) : rIncidents[n].assignee # user

\* C5: the remove action reports an identity as successfully deleted only if the
\* DELETE was issued and succeeded in that run.
C5_ReportedDeletedOnlyIfDeleted ==
    \A i \in Idx : trace[i].ev = "print_successfully_deleted" =>
        \E d \in 1..(i - 1) : trace[d].ev = "delete" /\ trace[d].run = trace[i].run

\* C6 as claimed: once no replacement was found for a layer or rule, no further
\* schedule or policy write is issued for that identity and it is not deleted.
C6_HaltsAtOverride ==
    \A i, j \in Idx :
        (i < j /\ trace[i].ev = "print_no_replacement" /\ trace[i].run = trace[j].run)
        => ~IsWrite(trace[j]) /\ ~DeleteIssued(trace[j])

\* C6 amended: once no replacement was found for a layer or rule, the identity is
\* not deleted in that run (other schedules and policies may still be written).
C6_NoReplacementNoDelete ==
    \A i, j \in Idx :
        (trace[i].ev = "print_no_replacement" /\ trace[i].run = trace[j].run)
        => ~DeleteIssued(trace[j])

\* C6 witness: after a layer or rule without replacement, another entity was
\* written and delete_user then refused
C6_Witness ==
    /\ pc = "returned" /\ ret = "false"
    /\ \E i, j \in Idx :
          /\ i < j
          /\ trace[i].ev = "print_no_replacement" /\ trace[i].run = bi
          /\ IsWrite(trace[j]) /\ trace[j].run = bi

\* C7: for every open incident of the departing identity whose escalation policy id
\* is in the listing, the remove action issues exactly one reassignment, to that
\* incident's own policy; it never reassigns an incident to an identity.
ReassignsOf(id) ==
    {i \in Idx : trace[i].ev = "reassign_to_policy" /\ trace[i].run = bi /\ trace[i].id = id}

C7_PolicyLevelHandoff ==
    /\ pc = "s3_inc" =>
          \A j \in 1..Len(local) : local[j].ep # 0 =>
             IF j < k
             THEN /\ Cardinality(ReassignsOf(local[j].id)) = 1
                  /\ \A i \in ReassignsOf(local[j].id) : trace[i].arg = local[j].ep
             ELSE ReassignsOf(local[j].id) = {}
    /\ \A i \in Idx : trace[i].ev # "reassign_to_user"

\* C7 witness: the loop over the incidents is over and an incident of policy 2 was
\* handed to policy 2
C7_Witness ==
    /\ pc = "s3_inc" /\ k > Len(local)
    /\ \E j \in 1..Len(local) :
          local[j].ep = 2 /\ rIncidents[local[j].id] = [assignee |-> "EP", ep |-> 2]

\* C8: every listed incident without a resolvable escalation policy gets a reported
\* reassignment failure, and the incidents are never reported as successfully
\* reassigned when one of them was skipped or failed.
FailureReported(id) ==
    \E i \in Idx : trace[i].ev = "print_failed_reassign" /\ trace[i].run = bi
                   /\ trace[i].id = id

C8_SkippedIncidentReported ==
    /\ pc = "s3_inc" =>
          \A j \in 1..Len(local) : (j < k /\ local[j].ep = 0) => FailureReported(local[j].id)
    /\ (Len(trace) > 0 /\ trace[Len(trace)].ev = "print_reassigned_successfully") =>
          \A j \in 1..Len(local) : local[j].ep # 0 /\ ~FailureReported(local[j].id)

\* C9: a remote call failing during the override stages or the deletion of one
\* reference never prevents the remaining references of the batch from being
\* processed.
C9_BatchIsolation ==
    (pc = "crashed"
       /\ trace[Len(trace)].at \in {"ov_s_list", "ov_s_get", "ov_s_put", "ov_p_list",
                                    "ov_p_step", "delete"})
    => bi = Len(user_list)

----------------------------------------------------------------------------
\* override_user_in_all_schedules as a function: one schedule, a user and an avoid
\* list drawn from bounded sets, and one step that rewrites the layers

FnMaxLayers == 3
FnMaxEntries == 4

\* the layers of n entries over the users
LayersOfLen(n) == {L(us) : us \in {t \in SeqsUpTo(Users, n) : Len(t) = n}}

\* the schedules of exactly n layers holding at most `budget` entries in all
RECURSIVE SchedulesOf(_, _)
SchedulesOf(n, budget) ==
    IF n = 0 THEN {<<>>}
    ELSE UNION {{<<l>> \o rest : l \in LayersOfLen(m), rest \in SchedulesOf(n - 1, budget - m)} :
                   m \in 0..budget}

FnSchedules == UNION {SchedulesOf(n, FnMaxEntries) : n \in 1..FnMaxLayers}

InitOverride ==
    /\ rUsers = Users
    /\ \E sched \in FnSchedules : rSchedules = <<sched>>
    /\ rPolicies = <<>>
    /\ rIncidents = <<>>
    /\ user_list = <<>>
    /\ bi = 0
    /\ pc = "fn_override"
    /\ user \in Users
    /\ policy_ids = <<>>
    /\ k = 0
    /\ local = <<>>
    /\ obj = <<>>
    /\ avoid_user_ids \in SUBSET Users
    /\ ret = "none"
    /\ trace = <<>>
    /\ extWrites = 0
    /\ failures = 0

\* lines 645-666 on the schedule read at line 644
ApplyOverrideSchedule ==
    /\ pc = "fn_override"
    /\ obj' = OverrideSchedule(rSchedules[1], user, avoid_user_ids)
    /\ pc' = "fn_done"
    /\ UNCHANGED <<remote, user_list, bi, user, policy_ids, k, local, avoid_user_ids, ret,
                   trace, extWrites, failures>>

NextOverride == ApplyOverrideSchedule

SpecOverride == InitOverride /\ [][NextOverride]_vars

\* C10: same-layer fallback order. When the layer of the departing identity holds an
\* entry whose id is not avoided, the substitute is the first such entry in the
\* layer's original order, and every entry of the departing identity in that layer
\* becomes that entry (adjacent layers are not consulted); [A,B,C] with avoid {B}
\* becomes [A,A,C].
C10_SameLayerFallbackOrder ==
    pc = "fn_done" =>
        \A idx \in 1..Len(rSchedules[1]) :
            LET orig == rSchedules[1][idx].users
                new == obj.layers[idx].users
                ok == {f \in 1..Len(orig) : orig[f].user \notin avoid_user_ids}
            IN (ok # {} /\ \E i \in 1..Len(orig) : orig[i].user = user) =>
                  \E f \in ok :
                     /\ \A g \in ok : f <= g
                     /\ Len(new) = Len(orig)
                     /\ \A i \in 1..Len(orig) :
                           new[i] = IF orig[i].user = user THEN orig[f] ELSE orig[i]

\* C10 witness: [A,B,C], avoid {B}, B replaced by A
C10_Witness ==
    /\ pc = "fn_done"
    /\ rSchedules[1] = <<L(<<"U1", "U2", "U3">>)>>
    /\ user = "U2" /\ avoid_user_ids = {"U2"}
    /\ obj.layers = <<L(<<"U1", "U1", "U3">>)>>

\* the layers of the schedule as read at line 644, before any rewrite
ReadLayers == rSchedules[1]

\* the first entry of the read layer i whose id is not avoided, NoEntry when the
\* layer does not exist or has none
FirstOfRead(i) ==
    IF i \in 1..Len(ReadLayers)
    THEN LET us == ReadLayers[i].users
             ok == {f \in 1..Len(us) : us[f].user \notin avoid_user_ids}
         IN IF ok = {} THEN NoEntry ELSE us[CHOOSE f \in ok : \A g \in ok : f <= g]
    ELSE NoEntry

HoldsUser(i) == \E e \in 1..Len(ReadLayers[i].users) : ReadLayers[i].users[e].user = user

\* C11: cross-layer fallback. When the layer of the departing identity holds no
\* entry that is not avoided, the substitute is the first non-avoided entry of the
\* previous layer of the schedule when it has one, otherwise the first non-avoided
\* entry of the next layer; no other layer supplies a substitute, so with neither
\* the layer stays as read.
C11_CrossLayerFallback ==
    pc = "fn_done" =>
        \A idx \in 1..Len(ReadLayers) :
            (HoldsUser(idx) /\ FirstOfRead(idx) = NoEntry) =>
                LET orig == ReadLayers[idx].users
                    sub == IF FirstOfRead(idx - 1) # NoEntry THEN FirstOfRead(idx - 1)
                           ELSE FirstOfRead(idx + 1)
                IN obj.layers[idx].users =
                      [i \in 1..Len(orig) |->
                          IF sub # NoEntry /\ orig[i].user = user THEN sub ELSE orig[i]]

\* C12: no replacement, no mutation. When every member of the layer of the departing
\* identity and of its adjacent layers is avoided, the layer stays exactly as read;
\* and a schedule none of whose layers got a substitute is not marked for writing.
C12_NoReplacementNoMutation ==
    pc = "fn_done" =>
        /\ \A idx \in 1..Len(ReadLayers) :
              (/\ HoldsUser(idx)
               /\ FirstOfRead(idx) = NoEntry
               /\ FirstOfRead(idx - 1) = NoEntry
               /\ FirstOfRead(idx + 1) = NoEntry)
              => obj.layers[idx] = ReadLayers[idx]
        /\ (\A idx \in 1..Len(ReadLayers) : HoldsUser(idx) => idx \in obj.norepl)
              => ~obj.changed

----------------------------------------------------------------------------
\* The same function on layers whose entries carry a time window

WinMaxEntries == 3

\* pd_api.py lines 513-515: an entry has no window (0) or a start/end window (1)
Windows == {0, 1}

WinLayersOfLen(n) ==
    {Layer(es) : es \in {t \in SeqsUpTo({Entry(u, w) : u \in Users, w \in Windows}, n) :
                            Len(t) = n}}

RECURSIVE WinSchedulesOf(_, _)
WinSchedulesOf(n, budget) ==
    IF n = 0 THEN {<<>>}
    ELSE UNION {{<<l>> \o rest : l \in WinLayersOfLen(m),
                                 rest \in WinSchedulesOf(n - 1, budget - m)} :
                   m \in 0..budget}

WinSchedules == WinSchedulesOf(1, WinMaxEntries) \cup WinSchedulesOf(2, WinMaxEntries)

InitWindows ==
    /\ rUsers = Users
    /\ \E sched \in WinSchedules : rSchedules = <<sched>>
    /\ rPolicies = <<>>
    /\ rIncidents = <<>>
    /\ user_list = <<>>
    /\ bi = 0
    /\ pc = "fn_override"
    /\ user \in Users
    /\ policy_ids = <<>>
    /\ k = 0
    /\ local = <<>>
    /\ obj = <<>>
    /\ avoid_user_ids \in {a \in SUBSET Users : user \in a}
    /\ ret = "none"
    /\ trace = <<>>
    /\ extWrites = 0
    /\ failures = 0

\* the avoid list holds the departing identity, as at lines 633-634 and 722
SpecWindows == InitWindows /\ [][NextOverride]_vars

\* C13: in a layer that got a substitute, every entry of the departing identity
\* names the substitute and keeps its own window; the entries of other identities
\* are unchanged.
C13_WindowPreserved ==
    pc = "fn_done" =>
        \A idx \in 1..Len(ReadLayers) :
            (HoldsUser(idx) /\ idx \notin obj.norepl) =>
                LET orig == ReadLayers[idx].users
                    new == obj.layers[idx].users
                IN /\ Len(new) = Len(orig)
                   /\ \E r \in Users :
                         \A i \in 1..Len(orig) :
                            new[i] = IF orig[i].user = user
                                     THEN [orig[i] EXCEPT !.user = r]
                                     ELSE orig[i]

----------------------------------------------------------------------------
\* The policy editors as functions: one policy, and add_user_to_policy,
\* remove_user_from_policy and the override applied to it in any order, each
\* followed by update_escalation_policy when it reports a change

PolMaxRules == 2
PolMaxTargets == 2
PolMaxOps == 2

\* a target as the service returns it: type and id, and the further fields
\* (summary, self, html_url) it carries (1) or not (0)
ApiTarget(t, i, s) == [type |-> t, id |-> i, summary |-> s]

PolTargets ==
    {ApiTarget("user_reference", "U1", 1), ApiTarget("user", "U1", 1),
     ApiTarget("user_reference", "U2", 1)}

\* the policies of exactly n rules holding at most `budget` targets in all
RECURSIVE PoliciesOf(_, _)
PoliciesOf(n, budget) ==
    IF n = 0 THEN {<<>>}
    ELSE UNION {{<<r>> \o rest : r \in {t \in SeqsUpTo(PolTargets, m) : Len(t) = m},
                                 rest \in PoliciesOf(n - 1, budget - m)} :
                   m \in 0..budget}

FnPolicies == UNION {PoliciesOf(n, PolMaxTargets) : n \in 0..PolMaxRules}

\* the rule_index arguments: rules are counted from 0 in the source
RuleIndexes == (0 - PolMaxRules - 1)..PolMaxRules

\* pd_api.py line 427: the target add_user_to_policy builds has an id and a type only
NewTarget(user_id) == ApiTarget("user_reference", user_id, 0)

\* lines 411-434; `given` is FALSE for rule_index=None. The result is the rules and
\* "true", "false", or "raise" for the IndexError of line 428
add_user_to_policy(rules, user_id, given, rule_index) ==
    LET n == Len(rules)
        idx == IF given THEN rule_index ELSE n - 1
    IN IF n = 0 THEN [rules |-> rules, ret |-> "false"]
       ELSE IF given /\ rule_index >= n THEN [rules |-> rules, ret |-> "false"]
       ELSE IF idx < 0 - n THEN [rules |-> rules, ret |-> "raise"]
       ELSE LET at == IF idx < 0 THEN n + idx + 1 ELSE idx + 1
                target == NewTarget(user_id)
            IN IF \A t \in 1..Len(rules[at]) : rules[at][t] # target
               THEN [rules |-> [rules EXCEPT ![at] = Append(@, target)], ret |-> "true"]
               ELSE [rules |-> rules, ret |-> "false"]

InitPolicy ==
    /\ rUsers = Users
    /\ rSchedules = <<>>
    /\ \E policy \in FnPolicies : rPolicies = <<policy>>
    /\ rIncidents = <<>>
    /\ user_list = <<>>
    /\ bi = 0
    /\ pc = "fn_policy"
    /\ user = "U1"
    /\ policy_ids = <<>>
    /\ k = 0
    /\ local = <<>>
    /\ obj = <<>>
    /\ avoid_user_ids = {}
    /\ ret = "none"
    /\ trace = <<>>
    /\ extWrites = 0
    /\ failures = 0

RetArg(r) == IF r = "true" THEN 1 ELSE IF r = "false" THEN 0 ELSE 2

\* one call on the policy as read: `local` keeps the policy before the call, the
\* policy is written when the call reports a change, the trace records the call
PolicyCall(e, i, rules, r) ==
    /\ pc = "fn_policy"
    /\ k < PolMaxOps
    /\ k' = k + 1
    /\ local' = rPolicies
    /\ rPolicies' = IF r = "true" THEN <<rules>> ELSE rPolicies
    /\ ret' = r
    /\ pc' = IF r = "raise" THEN "crashed" ELSE pc
    /\ Log(e, i, RetArg(r))
    /\ UNCHANGED <<rUsers, rSchedules, rIncidents, user_list, bi, user, policy_ids, obj,
                   avoid_user_ids, extWrites, failures>>

\* main.py lines 320-335 with a level given: get_escalation_policy,
\* add_user_to_policy, update_escalation_policy when did_add
PolicyAddAt ==
    \E i \in RuleIndexes :
        LET r == add_user_to_policy(rPolicies[1], user, TRUE, i)
        IN PolicyCall("add_user_to_policy", i, r.rules, r.ret)

\* add_user_to_policy with rule_index=None
PolicyAddLast ==
    LET r == add_user_to_policy(rPolicies[1], user, FALSE, 0)
    IN PolicyCall("add_user_to_policy_last", 0, r.rules, r.ret)

\* main.py lines 383-387: remove_user_from_policy, update when changed
PolicyRemove ==
    LET r == remove_user_from_policy(rPolicies[1], user)
    IN PolicyCall("remove_user_from_policy", 0, r.rules,
                  IF r.changed THEN "true" ELSE "false")

\* pd_api.py lines 678-693 with avoid_user_ids=[user_id]
PolicyOverride ==
    LET r == OverridePolicy(rPolicies[1], user, {user})
    IN PolicyCall("override_user_in_all_escalation_policies", 0, r.rules,
                  IF r.changed THEN "true" ELSE "false")

NextPolicy ==
    \/ PolicyAddAt
    \/ PolicyAddLast
    \/ PolicyRemove
    \/ PolicyOverride

SpecPolicy == InitPolicy /\ [][NextPolicy]_vars

\* the last call of the trace, and the policy before and after it
LastCall == trace[Len(trace)]
Before == local[1]
Written == rPolicies[1]
Called == Len(trace) > 0

\* the number of targets of the rule with the given type and id
CountIn(targets, t, i) ==
    Cardinality({x \in 1..Len(targets) : targets[x].type = t /\ targets[x].id = i})

NoDuplicateTarget(rules) ==
    \A r \in 1..Len(rules) : \A x, y \in 1..Len(rules[r]) :
        (rules[r][x].type = rules[r][y].type /\ rules[r][x].id = rules[r][y].id) => x = y

IsAdd(call) == call.ev \in {"add_user_to_policy", "add_user_to_policy_last"}

\* the rule of a policy of n rules an add call names (0 when it names none)
RuleOf(call, n) ==
    LET at == IF call.ev = "add_user_to_policy_last" THEN n
              ELSE IF call.id < 0 THEN n + call.id + 1 ELSE call.id + 1
    IN IF at \in 1..n THEN at ELSE 0

\* C14: idempotent target add. Two calls of add_user_to_policy in a row for the same
\* user and rule index, the first returning True: the second returns False and the
\* rule holds the user's target exactly once. And whenever the rule already holds a
\* target with the user's (kind, id), whatever its other fields, the call returns
\* False and changes nothing.
C14_IdempotentAdd ==
    /\ (Len(trace) >= 2
          /\ trace[Len(trace) - 1].ev = "add_user_to_policy"
          /\ LastCall.ev = "add_user_to_policy"
          /\ trace[Len(trace) - 1].id = LastCall.id
          /\ trace[Len(trace) - 1].arg = 1)
       => /\ LastCall.arg = 0
          /\ CountIn(Written[RuleOf(LastCall, Len(Written))], "user_reference", user) = 1
    /\ (Called /\ IsAdd(LastCall) /\ RuleOf(LastCall, Len(Before)) # 0
          /\ CountIn(Before[RuleOf(LastCall, Len(Before))], "user_reference", user) > 0)
       => LastCall.arg = 0 /\ Written = Before

\* C15: no duplicate target. A call on a policy whose rules hold no two targets
\* with the same (kind, id) writes a policy whose rules hold none either; so does
\* any sequence of calls.
C15_NoDuplicateTargetWritten ==
    (Called /\ NoDuplicateTarget(Before)) => NoDuplicateTarget(Written)

\* C17: remove_user_from_policy leaves no target of the user in any rule, returns
\* True exactly when it removed one, and is_user_in_any_escalation_policy then
\* finds no target of the user in the policy.
C17_RemoveRemovesUser ==
    (Called /\ LastCall.ev = "remove_user_from_policy") =>
        /\ \A r \in 1..Len(Written) : \A t \in 1..Len(Written[r]) :
              ~(Written[r][t].type \in {"user", "user_reference"} /\ Written[r][t].id = user)
        /\ (LastCall.arg = 1) <=> (Written # Before)
        /\ ~is_user_in_any_escalation_policy(<<Written>>, user)

C19_ExplicitRuleIndex ==
    (Called /\ LastCall.ev = "add_user_to_policy") =>
        IF LastCall.id \in 0..(Len(Before) - 1)
        THEN /\ Len(Written) = Len(Before)
             /\ \A r \in 1..Len(Before) : r # LastCall.id + 1 => Written[r] = Before[r]
        ELSE LastCall.arg = 0 /\ Written = Before

----------------------------------------------------------------------------
\* The remove action on one account: U1 on layer [U1, U2] of schedule S1, U1 and U3
\* the targets of rule 0 of policy P1, one open incident of U1 on P1

\* the targets of the rule, of the kind the service returned them with
ScenarioRule(kind) == <<Target(kind, "U1"), Target(kind, "U3")>>

InitScenario ==
    /\ rUsers = Users
    /\ rSchedules = << <<L(<<"U1", "U2">>)>> >>
    /\ \E kind \in {"user_reference", "user"} : rPolicies = << <<ScenarioRule(kind)>> >>
    /\ rIncidents = <<Incident("U1", 1)>>
    /\ user_list = <<"U1">>
    /\ bi = 1
    /\ pc = "get_user"
    /\ user = None
    /\ policy_ids = <<>>
    /\ k = 0
    /\ local = <<>>
    /\ obj = <<>>
    /\ avoid_user_ids = {}
    /\ ret = "none"
    /\ trace = <<>>
    /\ extWrites = 0
    /\ failures = 0

SpecScenario == InitScenario /\ [][Next]_vars

\* C16: end-to-end scenario. A run for U1 that no failure and no other client
\* disturbed ends with the layer equal to [U2, U2], rule 0 holding U3 as its only
\* target, the incident handed to policy P1, both scans clean and U1 deleted.
C16_EndToEndScenario ==
    (pc = "done" /\ extWrites = 0 /\ failures = 0) =>
        /\ rSchedules = << <<L(<<"U2", "U2">>)>> >>
        /\ Len(rPolicies[1][1]) = 1 /\ rPolicies[1][1][1].id = "U3"
        /\ rIncidents = <<[assignee |-> "EP", ep |-> 1]>>
        /\ \E i \in Idx : trace[i].ev = "is_user_in_any_schedule" /\ trace[i].arg = 0
        /\ \E i \in Idx : trace[i].ev = "is_user_in_any_escalation_policy" /\ trace[i].arg = 0
        /\ "U1" \notin rUsers

----------------------------------------------------------------------------
\* main.py, load_config and the start of main: the token sources, then the first
\* request of the chosen action

\* a token source gives nothing (None), an empty string, or a token
TokenValues == {None, "", "tok"}

\* config.yaml: absent; empty (safe_load gives None); holding something that is not
\* a mapping; a mapping without the key; with an empty token; with a token
ConfigFiles == {"no_file", "empty", "not_a_mapping", "no_key", "empty_token", "token"}

Truthy(v) == v \notin {None, ""}

\* config.get("pagerduty_api_token"): "raise" for the AttributeError on a value
\* without .get
ConfigToken(config) ==
    CASE config \in {"no_file", "no_key"} -> None
      [] config = "empty_token" -> ""
      [] config = "token" -> "tok"
      [] OTHER -> "raise"

\* lines 18-39: the exit status (0 when load_config returns) and the token returned
load_config_returning_none(token_arg, use_env, env, config) ==
    LET first == IF Truthy(token_arg) THEN token_arg ELSE IF use_env THEN env ELSE None
    IN IF Truthy(first) THEN [exit |-> 0, pd_token |-> first]
       ELSE IF ConfigToken(config) = "raise" THEN [exit |-> 1, pd_token |-> None]
       ELSE [exit |-> 0, pd_token |-> ConfigToken(config)]

load_config(token_arg, use_env, env, config) ==
    LET first == IF Truthy(token_arg) THEN token_arg ELSE IF use_env THEN env ELSE None
    IN IF Truthy(first) THEN [exit |-> 0, pd_token |-> first]
       ELSE IF ConfigToken(config) = "raise" THEN [exit |-> 1, pd_token |-> None]
       ELSE IF ~Truthy(ConfigToken(config)) THEN [exit |-> 1, pd_token |-> None]
       ELSE [exit |-> 0, pd_token |-> ConfigToken(config)]

\* obj holds the sources: the argument, --no-env, the environment, the file
InitConfig ==
    /\ rUsers = Users
    /\ rSchedules = <<>>
    /\ rPolicies = <<>>
    /\ rIncidents = <<>>
    /\ user_list = <<"U1">>
    /\ bi = 1
    /\ pc = "load_config"
    /\ user = None
    /\ policy_ids = <<>>
    /\ k = 0
    /\ local = <<>>
    /\ obj \in [token_arg : TokenValues, use_env : BOOLEAN, env : TokenValues,
                config : ConfigFiles]
    /\ avoid_user_ids = {}
    /\ ret = "none"
    /\ trace = <<>>
    /\ extWrites = 0
    /\ failures = 0

\* main.py line 220: k is the exit status of the process once it has exited
main_load_config ==
    /\ pc = "load_config"
    /\ LET r == load_config(obj.token_arg, obj.use_env, obj.env, obj.config)
       IN IF r.exit # 0
          THEN /\ pc' = "exited"
               /\ k' = r.exit
               /\ UNCHANGED ret
          ELSE /\ pc' = "api"
               /\ ret' = r.pd_token
               /\ UNCHANGED k
    /\ UNCHANGED <<remote, user_list, bi, user, policy_ids, local, obj, avoid_user_ids,
                   trace, extWrites, failures>>

\* lines 221-227 and the first request of the action, sent with the token
main_first_request ==
    /\ pc = "api"
    /\ Log("request", 0, 0)
    /\ pc' = "running"
    /\ UNCHANGED <<remote, user_list, bi, user, policy_ids, k, local, obj, avoid_user_ids,
                   ret, extWrites, failures>>

NextConfig ==
    \/ main_load_config
    \/ main_first_request

SpecConfig == InitConfig /\ [][NextConfig]_vars

NoTokenAvailable ==
    /\ ~Truthy(obj.token_arg)
    /\ ~Truthy(obj.env)
    /\ obj.config # "token"

----------------------------------------------------------------------------
\* Further properties of the remove action (specification Spec)

\* the steps that PUT a schedule or a policy
WritePcs == {"s2_put", "ov_s_put", "ov_p_step"}

\* C21: a failed write of a schedule or policy is retried once; the failure ends
\* the work on the entity only when the retry failed too, so a fatal write failure
\* is the second failed attempt of that write.
C21_WriteRetriedOnce ==
    (pc = "crashed" /\ LastCall.at \in WritePcs) =>
        Cardinality({i \in Idx : /\ trace[i].ev = "raise"
                                 /\ trace[i].at = LastCall.at
                                 /\ trace[i].run = LastCall.run}) = 2

----------------------------------------------------------------------------
\* The remove action beside another client whose edits are recorded in the trace

\* what the other client adds: an entry and a target that no account of Init holds
ExternalEntry == Entry("U3", 1)
ExternalTarget == Target("schedule_reference", "S9")

\* the edit falls between the tool's read of the entity and its write of it:
\* lines 641-669 for a schedule, lines 677-693 for a policy of the listing
InScheduleWindow(s) == pc = "ov_s_put" /\ local[k] = s
InPolicyWindow(p) ==
    /\ pc = "ov_p_step"
    /\ k <= p
    /\ p <= Len(local)
    /\ OverridePolicy(local[p], user, avoid_user_ids).changed

\* another client of the account appends an entry to a layer or a target to a rule
ExternalEdit ==
    /\ pc \notin {"done", "crashed"}
    /\ extWrites < MaxExternalWrites
    /\ extWrites' = extWrites + 1
    /\ \/ \E s \in 1..Len(rSchedules) : \E l \in 1..Len(rSchedules[s]) :
             /\ rSchedules' = [rSchedules EXCEPT ![s][l].users = Append(@, ExternalEntry)]
             /\ Log("external_edit_schedule", s, IF InScheduleWindow(s) THEN 1 ELSE 0)
             /\ UNCHANGED rPolicies
       \/ \E p \in 1..Len(rPolicies) : \E r \in 1..Len(rPolicies[p]) :
             /\ rPolicies' = [rPolicies EXCEPT ![p][r] = Append(@, ExternalTarget)]
             /\ Log("external_edit_policy", p, IF InPolicyWindow(p) THEN 1 ELSE 0)
             /\ UNCHANGED rSchedules
    /\ UNCHANGED <<rUsers, rIncidents, user_list, bi, pc, user, policy_ids, k, local, obj,
                   avoid_user_ids, ret, failures>>

InitRace ==
    /\ rUsers = Users
    /\ rSchedules \in InitSchedules
    /\ rPolicies \in InitPolicies
    /\ rIncidents = InitIncidents(rPolicies)
    /\ user_list = <<"U1">>
    /\ bi = 1
    /\ pc = "get_user"
    /\ user = None
    /\ policy_ids = <<>>
    /\ k = 0
    /\ local = <<>>
    /\ obj = <<>>
    /\ avoid_user_ids = {}
    /\ ret = "none"
    /\ trace = <<>>
    /\ extWrites = 0
    /\ failures = 0

NextRace ==
    \/ get_user
    \/ get_user_oncalls
    \/ stage2_get
    \/ stage2_put
    \/ stage3_list
    \/ stage3_incident
    \/ override_schedules_list
    \/ override_schedule_get
    \/ override_schedule_put
    \/ override_policies_list
    \/ override_policy_step
    \/ verify_schedules_list
    \/ verify_schedule_get
    \/ verify_policies
    \/ delete_request
    \/ after_delete_user
    \/ RemoteCallFails
    \/ ExternalEdit

SpecRace == InitRace /\ [][NextRace]_vars

\* how many of the other client's entries or targets an entity holds
ExternalEntriesIn(layers) ==
    Cardinality({p \in (1..Len(layers)) \X (1..FnMaxEntries + MaxExternalWrites) :
                    /\ p[2] <= Len(layers[p[1]].users)
                    /\ layers[p[1]].users[p[2]] = ExternalEntry})

ExternalTargetsIn(rules) ==
    Cardinality({p \in (1..Len(rules)) \X (1..FnMaxEntries + MaxExternalWrites) :
                    /\ p[2] <= Len(rules[p[1]])
                    /\ rules[p[1]][p[2]] = ExternalTarget})

\* the last event is the tool's write of an entity that the other client edited
\* between the tool's read and that write
WroteOverEdit(put, edit) ==
    /\ Called
    /\ LastCall.ev = put
    /\ \E i \in Idx : /\ trace[i].ev = edit
                       /\ trace[i].id = LastCall.id
                       /\ trace[i].arg = 1

\* between the edit and the write the tool reports nothing but its own rewrite: no
\* failure, no refusal
SilentSince(edit) ==
    \A i \in Idx : (trace[i].ev = edit /\ trace[i].id = LastCall.id /\ trace[i].arg = 1) =>
        \A j \in Idx : j > i =>
            trace[j].ev \in {"put_schedule", "put_policy", "print_no_replacement",
                             "external_edit_schedule", "external_edit_policy"}

\* C22: lost update. The write of a schedule or policy carries the whole entity as
\* the tool computed it from its earlier read, with no conflict check: whatever the
\* remote holds at the time of the write, another client's edit made since the read
\* included, the write stores exactly that body and reports nothing but the write.
C22_LostUpdate ==
    [][/\ (pc = "ov_s_put" /\ pc' = "ov_s_get") =>
              /\ rSchedules'[local[k]] = obj
              /\ trace' = Append(trace, Ev("put_schedule", local[k], 0))
       /\ (pc = "ov_p_step" /\ k' = k + 1 /\ k <= Len(local)) =>
              LET r == OverridePolicy(local[k], user, avoid_user_ids) IN
              r.changed =>
                  /\ rPolicies'[k] = r.rules
                  /\ trace' = trace \o NoReplacementEvents(r.norepl, k)
                                    \o <<Ev("put_policy", k, 0)>>]_vars

\* the write that has just overwritten, unreported, the only edit of the other
\* client, made between the tool's read of the schedule and this write
C22_Witness ==
    /\ WroteOverEdit("put_schedule", "external_edit_schedule")
    /\ SilentSince("external_edit_schedule")
    /\ ExternalEntriesIn(rSchedules[LastCall.id]) = 0
    /\ extWrites = 1
    /\ pc = "ov_s_get"

\* the same for a policy of the listing
C22_PolicyEditOverwritten ==
    /\ WroteOverEdit("put_policy", "external_edit_policy")
    /\ SilentSince("external_edit_policy")
    /\ ExternalTargetsIn(rPolicies[LastCall.id]) = 0
    /\ extWrites = 1

----------------------------------------------------------------------------
\* The remove action on accounts with several open incidents

MaxIncidents == 3

\* up to MaxIncidents incidents of U1, with the account's policy in the payload or
\* without one
IncidentLists ==
    {s \in SeqsUpTo({Incident("U1", 0), Incident("U1", 1)}, MaxIncidents) : s # <<>>}

InitIncidentLists ==
    /\ rUsers = Users
    /\ rSchedules = << <<L(<<"U1", "U2">>)>> >>
    /\ rPolicies = << <<<<Target("user", "U1"), UserRef("U1"), UserRef("U2")>>>> >>
    /\ rIncidents \in IncidentLists
    /\ user_list = <<"U1">>
    /\ bi = 1
    /\ pc = "get_user"
    /\ user = None
    /\ policy_ids = <<>>
    /\ k = 0
    /\ local = <<>>
    /\ obj = <<>>
    /\ avoid_user_ids = {}
    /\ ret = "none"
    /\ trace = <<>>
    /\ extWrites = 0
    /\ failures = 0

SpecIncidents == InitIncidentLists /\ [][Next]_vars

Attempted(n) == \E j \in Idx : trace[j].ev = "reassign_to_policy" /\ trace[j].id = n

\* C23: a failed reassignment is reported for its incident and does not stop the
\* run: the report follows the request of the same incident, the process does not
\* end at the incident loop, every incident of the list that names a policy has been
\* attempted when the loop is over, and a run that reaches its end has rewritten
\* the schedule and the policy after the failure.
C23_FailedReassignDoesNotStop ==
    /\ pc = "crashed" => LastCall.at # "s3_inc"
    /\ \A i \in Idx : trace[i].ev = "print_failed_reassign" =>
          /\ i > 1
          /\ trace[i - 1].ev = "reassign_to_policy"
          /\ trace[i - 1].id = trace[i].id
          /\ (\E j \in Idx : trace[j].ev = "print_reassigned_successfully") =>
                 \A n \in 1..Len(rIncidents) : rIncidents[n].ep # 0 => Attempted(n)
          /\ pc = "done" =>
                 /\ \E j \in Idx : j > i /\ trace[j].ev = "put_schedule"
                 /\ \E j \in Idx : /\ j > i
                                    /\ trace[j].ev = "put_policy"
                                    /\ trace[j].at = "ov_p_step"

\* a finished run in which the reassignment of the first incident failed, a later
\* incident was attempted, and the schedule was rewritten afterwards
C23_Witness ==
    /\ pc = "done"
    /\ \E i, j, m \in Idx :
          /\ trace[i].ev = "print_failed_reassign"
          /\ i < j
          /\ trace[j].ev = "reassign_to_policy"
          /\ trace[j].id > trace[i].id
          /\ j < m
          /\ trace[m].ev = "put_schedule"

----------------------------------------------------------------------------
\* ack_resolve_alerts.py: the acknowledge loop

MaxOpenIncidents == 2

\* an incident of the acknowledge and resolve tool: assignee, status, severity
OpenIncident(a, st, sv) == [assignee |-> a, status |-> st, severity |-> sv]

\* pd_api.py lines 322-327: statuses[] = triggered, acknowledged
list_open_incidents(user_id) ==
    LET ids == {i \in 1..Len(rIncidents) :
                   /\ rIncidents[i].assignee = user_id
                   /\ rIncidents[i].status \in {"triggered", "acknowledged"}}
        s == SetToSeq(ids)
    IN [i \in 1..Len(s) |-> [id |-> s[i], status |-> rIncidents[s[i]].status,
                             severity |-> rIncidents[s[i]].severity]]

\* line 62: the set of the loop lives in `obj`
already_ack == obj

\* line 73: `if inc_status == 'triggered' and inc_id not in already_ack`
ShouldAcknowledgeAnyOpen(inc_status, inc_id, acked) == inc_id \notin acked

ShouldAcknowledge(inc_status, inc_id, acked) ==
    inc_status = "triggered" /\ inc_id \notin acked

\* pd_api.py lines 164-179: PUT status 'acknowledged'; a resolved incident stays
\* resolved
acknowledge_incident(incident_id) ==
    [rIncidents EXCEPT ![incident_id].status =
        IF @ = "resolved" THEN @ ELSE "acknowledged"]

AckIncidentLists ==
    {s \in SeqsUpTo({OpenIncident("U1", "triggered", None),
                     OpenIncident("U1", "acknowledged", None)}, MaxOpenIncidents) : s # <<>>}

InitAck ==
    /\ rUsers = Users
    /\ rSchedules = <<>>
    /\ rPolicies = <<>>
    /\ rIncidents \in AckIncidentLists
    /\ user_list \in {<<"U1">>, <<NotFoundRef>>}
    /\ bi = 1
    /\ pc = "ack_get_user"
    /\ user = None
    /\ policy_ids = <<>>
    /\ k = 0
    /\ local = <<>>
    /\ obj = {}
    /\ avoid_user_ids = {}
    /\ ret = "none"
    /\ trace = <<>>
    /\ extWrites = 0
    /\ failures = 0

\* lines 52-62
ack_get_user ==
    /\ pc = "ack_get_user"
    /\ IF user_list[bi] \in rUsers
       THEN /\ user' = user_list[bi]
            /\ pc' = "ack_poll"
            /\ UNCHANGED trace
       ELSE /\ trace' = Append(trace, [Ev("print_not_found", 0, 0) EXCEPT !.who = user_list[bi]])
            /\ pc' = "done"
            /\ UNCHANGED user
    /\ UNCHANGED <<remote, user_list, bi, policy_ids, k, local, obj, avoid_user_ids, ret,
                   extWrites, failures>>

\* lines 65-66, and line 81 before it from the second round on
ack_poll ==
    /\ pc = "ack_poll"
    /\ local' = list_open_incidents(user)
    /\ k' = 1
    /\ pc' = "ack_inc"
    /\ UNCHANGED <<remote, user_list, bi, user, policy_ids, obj, avoid_user_ids, ret, trace,
                   extWrites, failures>>

\* line 66: resp.raise_for_status() in list_user_incidents, outside any try
ack_poll_fails ==
    /\ pc = "ack_poll"
    /\ failures < MaxFailures
    /\ failures' = failures + 1
    /\ Log("raise", 0, 0)
    /\ pc' = "crashed"
    /\ UNCHANGED <<remote, user_list, bi, user, policy_ids, k, local, obj, avoid_user_ids,
                   ret, extWrites>>

\* lines 67-77: one incident of the poll, the request accepted
ack_incident ==
    /\ pc = "ack_inc"
    /\ IF k > Len(local)
       THEN /\ pc' = "ack_poll"
            /\ local' = <<>>
            /\ UNCHANGED <<k, obj, rIncidents, trace>>
       ELSE LET inc == local[k] IN
            /\ k' = k + 1
            /\ UNCHANGED <<pc, local>>
            /\ IF ShouldAcknowledge(inc.status, inc.id, already_ack)
               THEN /\ rIncidents' = acknowledge_incident(inc.id)
                    /\ trace' = trace \o <<Ev("acknowledge_incident", inc.id, inc.status),
                                           Ev("print_acknowledged", inc.id, inc.status)>>
                    /\ obj' = already_ack \cup {inc.id}
               ELSE UNCHANGED <<obj, rIncidents, trace>>
    /\ UNCHANGED <<rUsers, rSchedules, rPolicies, user_list, bi, user, policy_ids,
                   avoid_user_ids, ret, extWrites, failures>>

\* lines 74-75, 78-79: the request raises, the handler prints
ack_incident_fails ==
    /\ pc = "ack_inc"
    /\ k <= Len(local)
    /\ ShouldAcknowledge(local[k].status, local[k].id, already_ack)
    /\ failures < MaxFailures
    /\ failures' = failures + 1
    /\ trace' = trace \o <<Ev("acknowledge_incident", local[k].id, local[k].status),
                           Ev("print_failed_acknowledge", local[k].id, local[k].status)>>
    /\ k' = k + 1
    /\ UNCHANGED <<remote, user_list, bi, pc, user, policy_ids, local, obj, avoid_user_ids,
                   ret, extWrites>>

\* the service or a responder changes the status of an incident while the loop
\* runs: an acknowledged incident returns to 'triggered', or an open one is resolved
IncidentStatusChanges ==
    /\ pc \in {"ack_poll", "ack_inc"}
    /\ extWrites < MaxExternalWrites
    /\ extWrites' = extWrites + 1
    /\ \E i \in 1..Len(rIncidents) :
          \/ /\ rIncidents[i].status = "acknowledged"
             /\ rIncidents' = [rIncidents EXCEPT ![i].status = "triggered"]
          \/ /\ rIncidents[i].status # "resolved"
             /\ rIncidents' = [rIncidents EXCEPT ![i].status = "resolved"]
    /\ UNCHANGED <<rUsers, rSchedules, rPolicies, user_list, bi, pc, user, policy_ids, k,
                   local, obj, avoid_user_ids, ret, trace, failures>>

NextAck ==
    \/ ack_get_user
    \/ ack_poll
    \/ ack_poll_fails
    \/ ack_incident
    \/ ack_incident_fails
    \/ IncidentStatusChanges

SpecAck == InitAck /\ [][NextAck]_vars

AckAccepted(id) ==
    {i \in Idx : trace[i].ev = "print_acknowledged" /\ trace[i].id = id}

\* C24: an acknowledge request is issued only for an incident that the current poll
\* lists as 'triggered'; one run issues at most one accepted acknowledge per incident
\* id; an incident is recorded as acknowledged exactly when its request was accepted,
\* so a failed request leaves it unrecorded, and the loop issues a request for every
\* incident it meets in a poll as 'triggered' and unrecorded.
C24_AcknowledgeOnlyTriggeredOnce ==
    /\ [](\A i \in Idx : trace[i].ev = "acknowledge_incident" => trace[i].arg = "triggered")
    /\ [](\A id \in 1..Len(rIncidents) :
             /\ Cardinality(AckAccepted(id)) <= 1
             /\ (id \in already_ack) = (AckAccepted(id) # {}))
    /\ [][(/\ pc = "ack_inc"
           /\ k' = k + 1
           /\ local[k].status = "triggered"
           /\ local[k].id \notin already_ack) =>
              /\ Len(trace') = Len(trace) + 2
              /\ trace'[Len(trace) + 1] = Ev("acknowledge_incident", local[k].id, "triggered")]_vars

\* an incident whose first request failed and whose request at a later poll was
\* accepted
C24_Witness ==
    \E i, j \in Idx :
        /\ trace[i].ev = "print_failed_acknowledge"
        /\ i < j
        /\ trace[j].ev = "print_acknowledged"
        /\ trace[j].id = trace[i].id
        /\ trace[j].id \in already_ack

----------------------------------------------------------------------------
\* The acknowledge loop that keeps polling, on a service that accepts every request

NextAckLive ==
    \/ ack_get_user
    \/ ack_poll
    \/ ack_incident
    \/ IncidentStatusChanges

\* the loop has no exit and its requests return: a poll and a loop step that stay
\* possible are eventually taken; the changes made by others are under no obligation
SpecAckLive ==
    /\ InitAck
    /\ [][NextAckLive]_vars
    /\ WF_vars(ack_poll)
    /\ WF_vars(ack_incident)

IncidentIds == 1..(MaxOpenIncidents + 1)

StaysTriggered(id) ==
    /\ user # None
    /\ id <= Len(rIncidents)
    /\ rIncidents[id].assignee = user
    /\ rIncidents[id].status = "triggered"

\* C26: acknowledge-loop liveness. While the loop keeps polling and every request is
\* accepted, an incident of the monitored user that is 'triggered' leaves that status
\* later on, also when it returned to 'triggered' after an acknowledge of the loop.
C26_NoIncidentStaysTriggered ==
    \A id \in IncidentIds : StaysTriggered(id) ~> ~StaysTriggered(id)

----------------------------------------------------------------------------
\* ack_resolve_alerts.py: resolve_incidents

Severities == {None, "critical", "high"}

\* --severity: absent, empty, or a value
SeverityFilters == {None, "", "critical", "high"}

\* the argument `severity` lives in `ret`
severity == ret

\* line 123: `if inc_status != 'resolved' and (not severity or inc_severity == severity)`
ShouldResolveIgnoringSeverity(inc_status, inc_severity, filter) == inc_status # "resolved"

ShouldResolve(inc_status, inc_severity, filter) ==
    inc_status # "resolved" /\ (~Truthy(filter) \/ inc_severity = filter)

\* pd_api.py lines 181-196: PUT status 'resolved'
resolve_incident(incident_id) == [rIncidents EXCEPT ![incident_id].status = "resolved"]

ResolveIncidentLists ==
    SeqsUpTo({OpenIncident(a, st, sv) : a \in {"U1"},
                                        st \in {"triggered", "acknowledged", "resolved"},
                                        sv \in Severities}, MaxOpenIncidents)

InitResolve ==
    /\ rUsers = Users
    /\ rSchedules = <<>>
    /\ rPolicies = <<>>
    /\ rIncidents \in ResolveIncidentLists
    /\ user_list \in {<<"U1">>, <<NotFoundRef>>}
    /\ bi = 1
    /\ pc = "res_get_user"
    /\ user = None
    /\ policy_ids = <<>>
    /\ k = 0
    /\ local = <<>>
    /\ obj = <<>>
    /\ avoid_user_ids = {}
    /\ ret \in SeverityFilters
    /\ trace = <<>>
    /\ extWrites = 0
    /\ failures = 0

\* lines 100-109
res_get_user ==
    /\ pc = "res_get_user"
    /\ IF user_list[bi] \in rUsers
       THEN /\ user' = user_list[bi]
            /\ pc' = "res_list"
            /\ UNCHANGED trace
       ELSE /\ trace' = Append(trace, [Ev("print_not_found", 0, 0) EXCEPT !.who = user_list[bi]])
            /\ pc' = "done"
            /\ UNCHANGED user
    /\ UNCHANGED <<remote, user_list, bi, policy_ids, k, local, obj, avoid_user_ids, ret,
                   extWrites, failures>>

\* lines 110-113
res_list ==
    /\ pc = "res_list"
    /\ LET incidents == list_open_incidents(user)
       IN /\ local' = incidents
          /\ IF incidents = <<>>
             THEN /\ Log("print_no_incidents", 0, 0)
                  /\ pc' = "done"
                  /\ UNCHANGED k
             ELSE /\ k' = 1
                  /\ pc' = "res_inc"
                  /\ UNCHANGED trace
    /\ UNCHANGED <<remote, user_list, bi, user, policy_ids, obj, avoid_user_ids, ret,
                   extWrites, failures>>

\* line 110: resp.raise_for_status() in list_user_incidents, outside any try
res_list_fails ==
    /\ pc = "res_list"
    /\ failures < MaxFailures
    /\ failures' = failures + 1
    /\ Log("raise", 0, 0)
    /\ pc' = "crashed"
    /\ UNCHANGED <<remote, user_list, bi, user, policy_ids, k, local, obj, avoid_user_ids,
                   ret, extWrites>>

\* lines 116-128: one incident of the list; the request is accepted, or it raises
\* and the handler prints
res_incident ==
    /\ pc = "res_inc"
    /\ IF k > Len(local)
       THEN /\ pc' = "done"
            /\ UNCHANGED <<k, rIncidents, trace, failures>>
       ELSE LET inc == local[k] IN
            /\ k' = k + 1
            /\ UNCHANGED pc
            /\ IF ShouldResolve(inc.status, inc.severity, severity)
               THEN \/ /\ rIncidents' = resolve_incident(inc.id)
                       /\ trace' = trace \o <<Ev("resolve_incident", inc.id, 0),
                                              Ev("print_resolved", inc.id, 0)>>
                       /\ UNCHANGED failures
                    \/ /\ failures < MaxFailures
                       /\ failures' = failures + 1
                       /\ trace' = trace \o <<Ev("resolve_incident", inc.id, 0),
                                              Ev("print_failed_resolve", inc.id, 0)>>
                       /\ UNCHANGED rIncidents
               ELSE UNCHANGED <<rIncidents, trace, failures>>
    /\ UNCHANGED <<rUsers, rSchedules, rPolicies, user_list, bi, user, policy_ids, local,
                   obj, avoid_user_ids, ret, extWrites>>

NextResolve ==
    \/ res_get_user
    \/ res_list
    \/ res_list_fails
    \/ res_incident

SpecResolve == InitResolve /\ [][NextResolve]_vars

ResolveRequests(id) == {i \in Idx : trace[i].ev = "resolve_incident" /\ trace[i].id = id}

\* the incident is one the claim selects: not resolved, and of the severity of the
\* filter when a filter is given
Selected(inc) ==
    /\ inc.status # "resolved"
    /\ (severity \in {None, ""} \/ inc.severity = severity)

\* C25: resolve_incidents issues one resolve request for each incident of the user's
\* open-incident list that is not resolved and has the severity of the filter (each
\* such incident when no filter is given) and none for any other incident; a failed
\* request does not keep the incidents after it from their requests: at every point of
\* the loop, the incidents already passed have exactly their requests.
C25_ResolveExactlySelected ==
    /\ \A id \in 1..Len(rIncidents) :
          (\A j \in 1..Len(local) : local[j].id # id) => ResolveRequests(id) = {}
    /\ pc \in {"res_inc", "done"} =>
          \A j \in 1..Len(local) :
              Cardinality(ResolveRequests(local[j].id)) =
                  IF j < k /\ Selected(local[j]) THEN 1 ELSE 0

\* the run is over, the request of the first incident failed and the second
\* incident got its request; a third incident of another severity got none
C25_Witness ==
    /\ pc = "done"
    /\ Len(local) >= 2
    /\ \E i, j \in Idx :
          /\ trace[i].ev = "print_failed_resolve"
          /\ trace[i].id = local[1].id
          /\ i < j
          /\ trace[j].ev = "resolve_incident"
          /\ trace[j].id = local[2].id

----------------------------------------------------------------------------
\* pd_api.py: remove_user_from_all_schedules

RemMaxSchedules == 2
RemMaxEntries == 2

\* schedules of one layer over U1 and U2, and one schedule of two layers
RemLayers == {L(us) : us \in SeqsUpTo({"U1", "U2"}, RemMaxEntries)}
RemSchedules ==
    SeqsUpTo({<<l>> : l \in RemLayers} \cup {<<L(<<"U2">>), L(<<"U1">>)>>}, RemMaxSchedules)

\* line 607 and line 630: the flag of the function lives in `ret`
removed_from_any == ret = "true"

\* lines 617-622: the layers without the user's entries, and whether one shrank
RemoveFromLayers(layers, user_id) ==
    LET new == [l \in 1..Len(layers) |->
                   [users |-> SelectSeq(layers[l].users, LAMBDA u : u.user # user_id)]]
    IN [layers |-> new,
        shrank |-> \E l \in 1..Len(layers) : Len(new[l].users) < Len(layers[l].users)]

InitRemove ==
    /\ rUsers = Users
    /\ rSchedules \in RemSchedules
    /\ rPolicies = <<>>
    /\ rIncidents = <<>>
    /\ user_list = <<"U1">>
    /\ bi = 1
    /\ pc = "rm_list"
    /\ user = "U1"
    /\ policy_ids = <<>>
    /\ k = 0
    /\ local = <<>>
    /\ obj = <<>>
    /\ avoid_user_ids = {}
    /\ ret = "none"
    /\ trace = <<>>
    /\ extWrites = 0
    /\ failures = 0

\* lines 603-607: GET /schedules, removed_from_any = False
rm_list ==
    /\ pc = "rm_list"
    /\ local' = [i \in 1..Len(rSchedules) |-> i]
    /\ k' = 1
    /\ ret' = "false"
    /\ pc' = "rm_schedule"
    /\ UNCHANGED <<remote, user_list, bi, user, policy_ids, obj, avoid_user_ids, trace,
                   extWrites, failures>>

\* lines 608-629: one schedule: GET, the layers rewritten, PUT under the flag; the
\* event carries whether a layer of this schedule shrank. Line 630 after the last.
rm_schedule ==
    /\ pc = "rm_schedule"
    /\ IF k > Len(local)
       THEN /\ pc' = "returned"
            /\ UNCHANGED <<k, ret, rSchedules, trace>>
       ELSE LET r == RemoveFromLayers(rSchedules[local[k]], user)
                flag == removed_from_any \/ r.shrank IN
            /\ k' = k + 1
            /\ ret' = IF flag THEN "true" ELSE "false"
            /\ UNCHANGED pc
            /\ IF flag
               THEN /\ rSchedules' = [rSchedules EXCEPT ![local[k]] = PutWhole(@, r.layers)]
                    /\ Log("put_schedule", local[k], IF r.shrank THEN 1 ELSE 0)
               ELSE UNCHANGED <<rSchedules, trace>>
    /\ UNCHANGED <<rUsers, rPolicies, rIncidents, user_list, bi, user, policy_ids, local,
                   obj, avoid_user_ids, extWrites, failures>>

NextRemove ==
    \/ rm_list
    \/ rm_schedule

SpecRemove == InitRemove /\ [][NextRemove]_vars

\* C29: remove_user_from_all_schedules writes a schedule back only if a layer of
\* that schedule contained the user and was changed, whichever schedules were
\* processed before it.
C29_WritesOnlyChangedSchedules ==
    \A i \in Idx : trace[i].ev = "put_schedule" => trace[i].arg = 1

----------------------------------------------------------------------------
\* pd_api.py: add_user_to_schedule_layer, then is_user_in_any_schedule

AddMaxSchedules == 2
AddMaxLayers == 2

\* a layer with its 'users' and its 'rendered_schedule_entries'
RenderedLayer(us, rs) == [users |-> us, rendered_schedule_entries |-> rs]

AddLayers ==
    {RenderedLayer([i \in 1..Len(us) |-> Entry(us[i], 0)], <<>>) :
        us \in SeqsUpTo({"U1", "U2"}, 1)}

\* schedules without layers included
AddSchedules == SeqsUpTo(SeqsUpTo(AddLayers, AddMaxLayers), AddMaxSchedules) \ {<<>>}

\* lines 502-519: the entry is appended to layers[0]['rendered_schedule_entries'];
\* start and end are set when both are given (window 0: none)
add_user_to_schedule_layer(layers, user_id, window) ==
    [layers EXCEPT ![1].rendered_schedule_entries = Append(@, Entry(user_id, window))]

InitAdd ==
    /\ rUsers = Users
    /\ rSchedules \in AddSchedules
    /\ rPolicies = <<>>
    /\ rIncidents = <<>>
    /\ user_list = <<"U1">>
    /\ bi = 1
    /\ pc = "add"
    /\ user = "U1"
    /\ policy_ids = <<>>
    /\ k = 0
    /\ local = <<>>
    /\ obj = <<>>
    /\ avoid_user_ids = {}
    /\ ret = "none"
    /\ trace = <<>>
    /\ extWrites = 0
    /\ failures = 0

\* lines 492-532 with status 200 at line 525, and lines 497-500 for a schedule
\* without layers
add_to_schedule ==
    /\ pc = "add"
    /\ \E s \in 1..Len(rSchedules) : \E window \in Windows :
          /\ k' = s
          /\ IF rSchedules[s] = <<>>
             THEN /\ ret' = "false"
                  /\ Log("add_user_to_schedule_layer", s, 0)
                  /\ UNCHANGED rSchedules
             ELSE /\ ret' = "true"
                  /\ rSchedules' = [rSchedules EXCEPT ![s] =
                         PutWhole(@, add_user_to_schedule_layer(@, user, window))]
                  /\ Log("add_user_to_schedule_layer", s, 1)
    /\ pc' = "verify"
    /\ UNCHANGED <<rUsers, rPolicies, rIncidents, user_list, bi, user, policy_ids, local,
                   obj, avoid_user_ids, extWrites, failures>>

\* lines 525-528: the PUT answers with another status
add_to_schedule_fails ==
    /\ pc = "add"
    /\ failures < MaxFailures
    /\ failures' = failures + 1
    /\ \E s \in 1..Len(rSchedules) :
          /\ rSchedules[s] # <<>>
          /\ k' = s
          /\ Log("add_user_to_schedule_layer", s, 0)
    /\ ret' = "false"
    /\ pc' = "verify"
    /\ UNCHANGED <<remote, user_list, bi, user, policy_ids, local, obj, avoid_user_ids,
                   extWrites>>

\* lines 696-709: is_user_in_any_schedule over the account
verify_after_add ==
    /\ pc = "verify"
    /\ Log("is_user_in_any_schedule", 0,
           IF \E s \in 1..Len(rSchedules) : UserInSchedule(rSchedules[s], user)
           THEN 1 ELSE 0)
    /\ pc' = "verified"
    /\ UNCHANGED <<remote, user_list, bi, user, policy_ids, k, local, obj, avoid_user_ids,
                   ret, extWrites, failures>>

NextAdd ==
    \/ add_to_schedule
    \/ add_to_schedule_fails
    \/ verify_after_add

SpecAdd == InitAdd /\ [][NextAdd]_vars

\* the entry that add created is in the schedule it was added to
AddedEntryStillThere ==
    /\ rSchedules[k] # <<>>
    /\ \E e \in 1..Len(rSchedules[k][1].rendered_schedule_entries) :
          rSchedules[k][1].rendered_schedule_entries[e].user = user

\* C27: verification sees what add wrote. After add_user_to_schedule_layer(S, U)
\* succeeded and while the entry it created is in S, is_user_in_any_schedule(U)
\* answers true.
C27_VerificationSeesAddedEntry ==
    (/\ pc = "verified"
     /\ trace[1].ev = "add_user_to_schedule_layer"
     /\ trace[1].arg = 1
     /\ AddedEntryStillThere) => LastCall.arg = 1

----------------------------------------------------------------------------
\* The remove action on accounts of more schedules than one listing page

PageMaxSchedules == 3

\* every layer that holds U1 holds U2 as well
PagedSchedules ==
    SeqsUpTo({<<L(<<"U1", "U2">>)>>, <<L(<<"U2">>)>>, <<L(<<"U2", "U1">>), L(<<"U2">>)>>},
             PageMaxSchedules) \ {<<>>}

InitPages ==
    /\ rUsers = Users
    /\ rSchedules \in PagedSchedules
    /\ rPolicies = << <<<<Target("user", "U1"), UserRef("U1"), UserRef("U2")>>>> >>
    /\ rIncidents = <<Incident("U1", 1)>>
    /\ user_list = <<"U1">>
    /\ bi = 1
    /\ pc = "get_user"
    /\ user = None
    /\ policy_ids = <<>>
    /\ k = 0
    /\ local = <<>>
    /\ obj = <<>>
    /\ avoid_user_ids = {}
    /\ ret = "none"
    /\ trace = <<>>
    /\ extWrites = 0
    /\ failures = 0

SpecPages == InitPages /\ [][Next]_vars

\* C28: decommission progress. On an account where every layer and every rule that
\* references U1 holds a substitute, a remove run of U1 that met no failed call and no
\* write of another client ends with U1 deleted, whatever the number of schedules.
C28_RunEndsWithIdentityDeleted ==
    (pc = "done" /\ failures = 0 /\ extWrites = 0) => "U1" \notin rUsers

\* the same run on an account that fits in one listing page
C28_OnePageRunDeletes ==
    (pc = "done" /\ failures = 0 /\ extWrites = 0 /\ Len(rSchedules) <= DefaultPageSize)
        => "U1" \notin rUsers

====
